---- MODULE Spec2Model ----
(***************************************************************************)
(* Resilient aggregation engine of the Star Wars API facade:               *)
(*   - SWAPIClient._make_request  (src/shared/swapi_client.py)             *)
(*   - fetch_all_and_paginate     (src/shared/utils.py)                    *)
(*   - filter_by_field, sort_data (src/shared/utils.py)                    *)
(*   - fetch_<relation>_details, fetch_homeworld_details                   *)
(*                                (src/shared/utils.py)                    *)
(*   - extract_id_from_url and the lookup methods of SWAPIClient           *)
(*                                (src/shared/swapi_client.py)             *)
(*   - the planets, starships and characters endpoints (src/functions)     *)
(* Strings the code inspects character by character are modelled as        *)
(* sequences of one-character strings; a None page marker is NoPage.       *)
(***************************************************************************)
EXTENDS Integers, Sequences, FiniteSets, TLC

VARIABLES
    \* ---- one SWAPIClient._make_request call ----
    pc,             \* "idle" | "loop" | "returned" | "raised"
    attempt,        \* loop variable of `for attempt in range(1, MAX_RETRIES + 1)`
    session_calls,  \* number of session.get calls issued so far
    sleeps,         \* arguments of the time.sleep calls, in order
    history,        \* what the upstream answered to each session.get, in order
    result,         \* [kind, value]: the data returned or the message raised
    \* ---- the upstream collection and one fetch_all_and_paginate call ----
    upstream,       \* the whole remote collection (after `search`), in upstream order
    upstream_page_len,   \* how many items the upstream puts on one page
    apc,            \* "idle" | "collecting" | "filtering" | "done" | "failed"
    params,         \* [page, page_size, filters] of the call
    first_page,     \* the object fetch_func returned for page 1: [count, results]
    all_items,      \* the list named all_items
    pending,        \* pages submitted to the executor and not yet collected
    request_log,    \* the page numbers fetch_func was called with, in call order
    collected,      \* <<page, ok>> in the order as_completed yielded the futures
    candidates,     \* all_items as it stood when step 3 (the filters) began
    page_result,    \* the dict returned: [items, total, next, previous]
    first_fetch,    \* "none" | "ok" | "raised": how fetch_func(search, page=1) ended
    \* ---- one call of a function without state ----
    fn_call,        \* the function called and its arguments
    fn_ret,         \* what the call returned or raised; NotCalled before it
    \* ---- one call of a fetch_<relation>_details expander, or of the ----
    \* ---- per-character loop of the characters endpoint ----
    epc,            \* "idle" | "running" | "returned" | "raised"
    exp_args,       \* [fn, urls, chars, enrich_homeworld] of the call
    exp_pos,        \* position of the loop in the list it iterates
    exp_out,        \* the list the loop appends to
    lookups,        \* the by-id lookups issued: [resource, id, index, nested, ok]
    \* ---- the lookup methods of the one SWAPIClient instance ----
    lru_cache,      \* per decorated method: its <<key, value>> entries, oldest use first
    http_log,       \* the endpoints _make_request was called with, in order
    call_log,       \* the lookups made: [method, key, ok, value, requests]
    \* ---- get_swapi_client and the threads that call it ----
    instance,       \* the global _swapi_client_instance; NoInstance for None
    created,        \* how many SWAPIClient objects were constructed
    tpc,            \* per thread: "idle" | "create" | "assign" | "return"
    tlocal,         \* per thread: the object it constructed and has not stored yet
    treturned       \* per thread: the objects its calls returned, in order

reqVars == <<pc, attempt, session_calls, sleeps, history, result>>

aggVars == <<upstream, upstream_page_len, apc, params, first_page, all_items,
             pending, request_log, collected, candidates, page_result, first_fetch>>

fnVars == <<fn_call, fn_ret>>

expVars == <<epc, exp_args, exp_pos, exp_out, lookups>>

cacheVars == <<lru_cache, http_log, call_log>>

singletonVars == <<instance, created, tpc, tlocal, treturned>>

vars == <<pc, attempt, session_calls, sleeps, history, result,
          upstream, upstream_page_len, apc, params, first_page, all_items,
          pending, request_log, collected, candidates, page_result, first_fetch,
          fn_call, fn_ret,
          epc, exp_args, exp_pos, exp_out, lookups,
          lru_cache, http_log, call_log,
          instance, created, tpc, tlocal, treturned>>

\* What an operation of one component leaves alone: the other components.
nonReqVars == <<aggVars, fnVars, expVars, cacheVars, singletonVars>>

nonAggVars == <<reqVars, fnVars, expVars, cacheVars, singletonVars>>

nonFnVars == <<reqVars, aggVars, expVars, cacheVars, singletonVars>>

nonExpVars == <<reqVars, aggVars, fnVars, cacheVars, singletonVars>>

nonCacheVars == <<reqVars, aggVars, fnVars, expVars, singletonVars>>

nonSingletonVars == <<reqVars, aggVars, fnVars, expVars, cacheVars>>

\* No function call is under way.
NotCalled == [kind |-> "none"]

FnIdle == fn_call = NotCalled /\ fn_ret = NotCalled

\* No expander call is under way.
ExpIdle ==
    /\ epc = "idle"
    /\ exp_args = NotCalled
    /\ exp_pos = 0
    /\ exp_out = <<>>
    /\ lookups = <<>>

\* The methods decorated with @lru_cache(maxsize=128).
CachedMethods == {"get_films", "get_film_by_id"}

MaxThreads == 2

Threads == 1..MaxThreads

NoInstance == 0

\* The module was imported and no thread has called get_swapi_client.
SingletonIdle ==
    /\ instance = NoInstance
    /\ created = 0
    /\ tpc = [t \in Threads |-> "idle"]
    /\ tlocal = [t \in Threads |-> NoInstance]
    /\ treturned = [t \in Threads |-> <<>>]

\* A client on which no lookup was made yet.
CacheIdle ==
    /\ lru_cache = [m \in CachedMethods |-> <<>>]
    /\ http_log = <<>>
    /\ call_log = <<>>

(***************************************************************************)
(*                      SWAPIClient._make_request                          *)
(***************************************************************************)

MAX_RETRIES_off_by_one == 3 + 1

MAX_RETRIES == 3

RETRY_DELAY == 1

\* Parsed bodies a well-formed 2xx response can carry.
JsonData == {"luke", "leia"}

\* HTTP status codes the upstream is observed to answer with.
Statuses == {200, 201, 400, 404, 429, 500, 503}

\* Classes session.get or response.json() can raise.  The class json() raises
\* on a malformed body depends on the installed requests/simplejson: the
\* plain json.JSONDecodeError (a ValueError) or requests' own JSONDecodeError
\* (InvalidJSONError, hence RequestException, and ValueError at once).
TransportErrors == {"Timeout", "ConnectTimeout", "ConnectionError"}

JsonErrors == {"json.JSONDecodeError", "requests.JSONDecodeError"}

\* The classes an exception class is an instance of (its own name left out).
Bases(cls) ==
    CASE cls = "Timeout"                  -> {"Timeout", "RequestException"}
      [] cls = "ConnectTimeout"           -> {"Timeout", "ConnectionError", "RequestException"}
      [] cls = "ConnectionError"          -> {"ConnectionError", "RequestException"}
      [] cls = "requests.JSONDecodeError" -> {"RequestException", "ValueError"}
      [] cls = "json.JSONDecodeError"     -> {"ValueError"}
      [] OTHER                            -> {}

\* One upstream answer to one session.get: a transport error, or a response
\* with a status and a body (the parsed data, or "malformed" together with
\* the class json() raises on it).
Outcomes ==
    [kind : {"error"}, status : {0}, body : {""}, exc : TransportErrors]
    \cup [kind : {"response"}, status : Statuses, body : JsonData, exc : {""}]
    \cup [kind : {"response"}, status : {200}, body : {"malformed"}, exc : JsonErrors]

Step(act, exc, msg, data, sleep) ==
    [act |-> act, exc |-> exc, msg |-> msg, data |-> data, sleep |-> sleep]

IsLastAttempt_early(a) == a >= MAX_RETRIES - 1

IsLastAttempt_never(a) == a > MAX_RETRIES

IsLastAttempt(a) == a = MAX_RETRIES

BackoffDelay_constant(a) == RETRY_DELAY

BackoffDelay(a) == RETRY_DELAY * a

IsClientError_retried(status) == FALSE

IsClientError(status) == 400 <= status /\ status < 500

IsServerError(status) == status >= 500

\* The body of the try block for attempt a, given the upstream's answer o.
TryBody(a, o) ==
    IF o.kind = "error"
    THEN Step("raise", o.exc, "", "", 0)
    ELSE IF o.status = 404
    THEN Step("raise", "SWAPIException", "Resource not found", "", 0)
    ELSE IF IsClientError(o.status)
    THEN Step("raise", "SWAPIException", "Client error", "", 0)
    ELSE IF IsServerError(o.status)
    THEN IF IsLastAttempt(a)
         THEN Step("raise", "SWAPIException", "Server error", "", 0)
         ELSE Step("continue", "", "", "", BackoffDelay(a))
    ELSE IF o.body = "malformed"
    THEN Step("raise", o.exc, "", "", 0)
    ELSE Step("return", "", "", o.body, 0)

ExceptClauses_noRequestException == <<"Timeout", "ValueError">>

\* The except clauses of the try statement, in source order.
ExceptClauses == <<"Timeout", "RequestException", "ValueError">>

\* The clause that handles an exception of class cls: the first one, in source
\* order, that cls is an instance of; "none" when the exception propagates.
Handler(cls) ==
    LET hits == {i \in 1..Len(ExceptClauses) : ExceptClauses[i] \in Bases(cls)}
    IN IF hits = {} THEN "none"
       ELSE ExceptClauses[CHOOSE i \in hits : \A j \in hits : i <= j]

\* What the handler of the clause does at attempt a.
Except(a, clause) ==
    CASE clause = "Timeout" ->
            IF IsLastAttempt(a)
            THEN Step("raise", "SWAPIException", "Timeout", "", 0)
            ELSE Step("continue", "", "", "", BackoffDelay(a))
      [] clause = "RequestException" ->
            IF IsLastAttempt(a)
            THEN Step("raise", "SWAPIException", "Request failed", "", 0)
            ELSE Step("continue", "", "", "", BackoffDelay(a))
      [] clause = "ValueError" ->
            Step("raise", "SWAPIException", "Invalid JSON response", "", 0)

\* One iteration of the loop: the try block, then the matching except clause.
Iteration(a, o) ==
    LET t == TryBody(a, o)
    IN IF t.act = "raise" /\ Handler(t.exc) # "none"
       THEN Except(a, Handler(t.exc))
       ELSE t

NoResult == [kind |-> "none", value |-> ""]

ReqIdle ==
    /\ pc = "idle"
    /\ attempt = 0
    /\ session_calls = 0
    /\ sleeps = <<>>
    /\ history = <<>>
    /\ result = NoResult

\* _make_request is entered: the for loop starts at attempt 1.
StartRequest ==
    /\ pc = "idle"
    /\ pc' = "loop"
    /\ attempt' = 1
    /\ UNCHANGED <<session_calls, sleeps, history, result>>
    /\ UNCHANGED nonReqVars

\* One pass through the loop body: one session.get and what follows it, up to
\* the return, the raise or the start of the next iteration.  Falling off the
\* end of the loop reaches the statement after it.
Attempt ==
    /\ pc = "loop"
    /\ UNCHANGED nonReqVars
    /\ \E o \in Outcomes :
        LET s == Iteration(attempt, o)
        IN /\ session_calls' = session_calls + 1
           /\ history' = Append(history, o)
           /\ sleeps' = IF s.act = "continue" THEN Append(sleeps, s.sleep) ELSE sleeps
           /\ CASE s.act = "return" ->
                     /\ pc' = "returned"
                     /\ result' = [kind |-> "data", value |-> s.data]
                     /\ UNCHANGED attempt
                [] s.act = "raise" ->
                     /\ pc' = "raised"
                     /\ result' = [kind |-> s.exc, value |-> s.msg]
                     /\ UNCHANGED attempt
                [] s.act = "continue" /\ attempt < MAX_RETRIES ->
                     /\ pc' = "loop"
                     /\ attempt' = attempt + 1
                     /\ UNCHANGED result
                [] s.act = "continue" /\ attempt >= MAX_RETRIES ->
                     /\ pc' = "raised"
                     /\ result' = [kind |-> "SWAPIException",
                                   value |-> "Unexpected error in request loop"]
                     /\ UNCHANGED attempt

ReqNext == StartRequest \/ Attempt

(***************************************************************************)
(*                             filter_by_field                             *)
(***************************************************************************)

UpperCase == <<"A","B","C","D","E","F","G","H","I","J","K","L","M",
               "N","O","P","Q","R","S","T","U","V","W","X","Y","Z">>

LowerCase == <<"a","b","c","d","e","f","g","h","i","j","k","l","m",
               "n","o","p","q","r","s","t","u","v","w","x","y","z">>

\* str.lower() on one character.
LowerChar(c) ==
    IF \E i \in 1..Len(UpperCase) : UpperCase[i] = c
    THEN LowerCase[CHOOSE i \in 1..Len(UpperCase) : UpperCase[i] = c]
    ELSE c

\* str.lower().
Lower(str) == IF str = <<>> THEN <<>> ELSE [i \in 1..Len(str) |-> LowerChar(str[i])]

\* Python's `sub in str` on strings.
StrIn(sub, str) ==
    \E i \in 0..(Len(str) - Len(sub)) : SubSeq(str, i + 1, i + Len(sub)) = sub

\* `item.get(field)` is truthy: the key is there and its string is not empty
\* (a key holding None behaves as a missing key).
DigitChars == <<"0", "1", "2", "3", "4", "5", "6", "7", "8", "9">>

\* The values a dict of upstream data holds under a key: str, int or None.
PyStrValue(chars) == [type |-> "str", str |-> chars]

PyIntValue(n) == [type |-> "int", int |-> n]

PyNoneValue == [type |-> "NoneType"]

\* str(n) for n >= 0.
RECURSIVE DecimalDigits(_)
DecimalDigits(n) ==
    IF n < 10 THEN <<DigitChars[n + 1]>>
    ELSE DecimalDigits(n \div 10) \o <<DigitChars[(n % 10) + 1]>>

\* str(v)
PyToStr(v) ==
    CASE v.type = "str" -> v.str
      [] v.type = "int" -> DecimalDigits(v.int)
      [] v.type = "NoneType" -> <<"N", "o", "n", "e">>

\* bool(v)
IsTruthy(v) ==
    CASE v.type = "str" -> v.str # <<>>
      [] v.type = "int" -> v.int # 0
      [] v.type = "NoneType" -> FALSE

\* item.get(field)
ItemGet(item, field) == IF field \in DOMAIN item THEN item[field] ELSE PyNoneValue

FieldTruthy(item, field) == IsTruthy(ItemGet(item, field))

FilterByField(data, field, value) ==
    IF value = <<>> THEN data
    ELSE LET value_lower == Lower(value)
             Keep(item) == /\ FieldTruthy(item, field)
                           /\ StrIn(value_lower, Lower(PyToStr(ItemGet(item, field))))
         IN SelectSeq(data, Keep)

(***************************************************************************)
(*                         fetch_all_and_paginate                          *)
(***************************************************************************)

\* Bounds of the explored inputs.
MaxItems == 3

MaxUpstreamPageLen == 2

MaxPage == 2

MaxPageSize == 2

DEFAULT_PAGE_SIZE == 10

DEFAULT_ITEMS_PER_PAGE == 10

MAX_WORKERS == 5

\* The markers `next` and `previous` are page numbers (>= 1) or None.
NoPage == 0

Male == <<"m", "a", "l", "e">>

Female == <<"F", "e", "m", "a", "l", "e">>

\* An upstream entity: its identity and, unless gender is <<>>, its gender.
MkItem(i, gender) ==
    IF gender = <<>> THEN [id |-> i] ELSE [id |-> i, gender |-> PyStrValue(gender)]

\* 30 people on upstream pages of 10, 25 of them male.
ScenarioUpstream == [i \in 1..30 |-> MkItem(i, IF i % 6 = 0 THEN <<>> ELSE Male)]

\* The `filters` argument: None or {} (no entry), or field -> value entries
\* in insertion order; an entry with an empty value stands for None or "".
FilterChoices ==
    { <<>>,
      <<[field |-> "gender", value |-> <<>>]>>,
      <<[field |-> "gender", value |-> Male]>>,
      <<[field |-> "gender", value |-> <<"F", "E">>]>>,
      <<[field |-> "gender", value |-> Male], [field |-> "species", value |-> <<"x">>]>> }

PageSizes == (1..MaxPageSize) \cup {DEFAULT_PAGE_SIZE}

Min(a, b) == IF a <= b THEN a ELSE b

\* What the upstream holds on page p.
UpstreamPage(p) ==
    SubSeq(upstream, (p - 1) * upstream_page_len + 1,
           Min(p * upstream_page_len, Len(upstream)))

\* The value a successful fetch_func(search, page) returns.
Response(p) == [count |-> Len(upstream), results |-> UpstreamPage(p)]

ItemsPerPage(results) ==
    IF Len(results) # 0 THEN Len(results) ELSE DEFAULT_ITEMS_PER_PAGE

TotalPages_floor(total_swapi, items_per_page) == total_swapi \div items_per_page

TotalPages(total_swapi, items_per_page) ==
    (total_swapi + items_per_page - 1) \div items_per_page

\* The futures as_completed can yield next: the executor runs at most
\* MAX_WORKERS submitted calls at once, taken in submission order.
InFlight(pages) ==
    {p \in pages : Cardinality({q \in pages : q < p}) < MAX_WORKERS}

PageFailurePolicy_propagate == "propagate"

\* `except Exception: continue` around future.result().
PageFailurePolicy == "continue"

RECURSIVE ApplyFilters(_, _)
ApplyFilters(items, filters) ==
    IF filters = <<>> THEN items
    ELSE LET f == Head(filters)
         IN ApplyFilters(IF f.value # <<>>
                         THEN FilterByField(items, f.field, f.value)
                         ELSE items,
                         Tail(filters))

TotalPagesFiltered_floor(total_filtered, page_size) ==
    IF total_filtered > 0 THEN total_filtered \div page_size ELSE 1

TotalPagesFiltered(total_filtered, page_size) ==
    IF total_filtered > 0
    THEN (total_filtered + page_size - 1) \div page_size
    ELSE 1

StartIdx_fromPage(page, page_size) == page * page_size

StartIdx(page, page_size) == (page - 1) * page_size

\* seq[start:end] for 0 <= start <= end.
PySlice(seq, start, end) == SubSeq(seq, start + 1, Min(end, Len(seq)))

NextPage(page, total_pages_filtered) ==
    IF page < total_pages_filtered THEN page + 1 ELSE NoPage

PreviousPage(page) == IF page > 1 THEN page - 1 ELSE NoPage

NoParams == [page |-> 0, page_size |-> 0, filters |-> <<>>]

NoFirstPage == [count |-> 0, results |-> <<>>]

NoPageResult == [items |-> <<>>, total |-> 0, next |-> NoPage, previous |-> NoPage]

AggIdle ==
    /\ apc = "idle"
    /\ params = NoParams
    /\ first_page = NoFirstPage
    /\ all_items = <<>>
    /\ pending = {}
    /\ request_log = <<>>
    /\ collected = <<>>
    /\ candidates = <<>>
    /\ page_result = NoPageResult
    /\ first_fetch = "none"

\* The upstream collection is any list of at most MaxItems entities served on
\* pages of 1..MaxUpstreamPageLen items, or the 30-people scenario.
UpstreamInit ==
    \/ /\ upstream_page_len \in 1..MaxUpstreamPageLen
       /\ \E n \in 0..MaxItems :
            \E g \in [1..n -> {Male, Female, <<>>}] :
                upstream = IF n = 0 THEN <<>> ELSE [i \in 1..n |-> MkItem(i, g[i])]
    \/ /\ upstream_page_len = 10
       /\ upstream = ScenarioUpstream

FirstPageFailurePolicy_swallow == "swallow"

\* fetch_func(search=params.search, page=1) is called outside any try block.
FirstPageFailurePolicy == "propagate"

\* Steps 1 and 2 up to the submission of the remaining pages: the first page
\* is fetched in the caller's thread; its failure propagates to the caller.
FetchFirstPage ==
    /\ apc = "idle"
    /\ \E page \in 1..MaxPage, page_size \in PageSizes, filters \in FilterChoices :
          params' = [page |-> page, page_size |-> page_size, filters |-> filters]
    /\ \E ok \in BOOLEAN :
          /\ first_fetch' = IF ok THEN "ok" ELSE "raised"
          /\ IF ok \/ FirstPageFailurePolicy # "propagate"
             THEN LET fp == IF ok THEN Response(1) ELSE NoFirstPage
                      total_swapi == fp.count
                      items_per_page == ItemsPerPage(fp.results)
                      total_pages == TotalPages(total_swapi, items_per_page)
                      rest == IF total_pages > 1 THEN 2..total_pages ELSE {}
                  IN /\ first_page' = fp
                     /\ all_items' = fp.results
                     /\ pending' = rest
                     /\ request_log' = <<1>> \o
                           (IF rest = {} THEN <<>>
                            ELSE [i \in 1..(total_pages - 1) |-> i + 1])
                     /\ apc' = IF rest = {} THEN "filtering" ELSE "collecting"
             ELSE /\ apc' = "failed"
                  /\ request_log' = <<1>>
                  /\ UNCHANGED <<first_page, all_items, pending>>
    /\ UNCHANGED <<upstream, upstream_page_len, collected, candidates, page_result>>
    /\ UNCHANGED nonAggVars

\* One turn of the as_completed loop: some running future completes, with a
\* response or with an exception, and the caller's thread handles it.
\* all_items is still the list object held by first_page['results'].
CollectPage ==
    /\ apc = "collecting"
    /\ \E p \in InFlight(pending), ok \in BOOLEAN :
          /\ collected' = Append(collected, <<p, ok>>)
          /\ pending' = pending \ {p}
          /\ IF ok
             THEN /\ all_items' = all_items \o Response(p).results
                  /\ first_page' = [first_page EXCEPT !.results = all_items']
                  /\ apc' = IF pending' = {} THEN "filtering" ELSE "collecting"
             ELSE /\ UNCHANGED <<all_items, first_page>>
                  /\ apc' = IF PageFailurePolicy # "continue" THEN "failed"
                            ELSE IF pending' = {} THEN "filtering" ELSE "collecting"
    /\ UNCHANGED <<upstream, upstream_page_len, params, request_log, candidates,
                   page_result, first_fetch>>
    /\ UNCHANGED nonAggVars

\* Steps 3 to 6 and the return.
FilterAndPaginate ==
    /\ apc = "filtering"
    /\ LET filtered == ApplyFilters(all_items, params.filters)
           total_filtered == Len(filtered)
           total_pages_filtered == TotalPagesFiltered(total_filtered, params.page_size)
           start_idx == StartIdx(params.page, params.page_size)
           end_idx == start_idx + params.page_size
       IN /\ candidates' = all_items
          /\ all_items' = filtered
          /\ page_result' = [items |-> PySlice(filtered, start_idx, end_idx),
                             total |-> total_filtered,
                             next |-> NextPage(params.page, total_pages_filtered),
                             previous |-> PreviousPage(params.page)]
    /\ apc' = "done"
    /\ UNCHANGED <<upstream, upstream_page_len, params, first_page, pending,
                   request_log, collected, first_fetch>>
    /\ UNCHANGED nonAggVars

AggNext == FetchFirstPage \/ CollectPage \/ FilterAndPaginate

Init == ReqIdle /\ UpstreamInit /\ AggIdle /\ FnIdle /\ ExpIdle /\ CacheIdle /\ SingletonIdle

Next == AggNext

\* One fetch_all_and_paginate call against any upstream collection.
Spec == Init /\ [][Next]_vars

\* No collection is being aggregated.
NoUpstream == upstream = <<>> /\ upstream_page_len = DEFAULT_ITEMS_PER_PAGE

ReqInit == ReqIdle /\ AggIdle /\ NoUpstream /\ FnIdle /\ ExpIdle /\ CacheIdle /\ SingletonIdle

\* One _make_request call against any sequence of upstream answers.
SpecRequest == ReqInit /\ [][ReqNext]_vars

(***************************************************************************)
(*                 Properties of SWAPIClient._make_request                 *)
(***************************************************************************)

Finished == pc \in {"returned", "raised"}

Last(seq) == seq[Len(seq)]

Is5xx(o) == o.kind = "response" /\ o.status \in 500..599

Is4xx(o) == o.kind = "response" /\ o.status \in 400..499

IsTransportError(o) == o.kind = "error"

IsValid2xx(o) == o.kind = "response" /\ o.status \in 200..299 /\ o.body # "malformed"

IsMalformed2xx(o) == o.kind = "response" /\ o.status \in 200..299 /\ o.body = "malformed"

AllOf(seq, P(_)) == \A i \in 1..Len(seq) : P(seq[i])

Front(seq) == SubSeq(seq, 1, Len(seq) - 1)

\* C4: when every attempt of a call receives a 5xx response, the call keeps
\* retrying until the third request and then raises SWAPIException; exactly 3
\* requests were issued and no further one can be.
C4_ServerErrorsExhaustAfterThree ==
    (history # <<>> /\ AllOf(history, Is5xx)) =>
        /\ Len(history) <= 3
        /\ Len(history) < 3 => pc = "loop"
        /\ Len(history) = 3 =>
              /\ pc = "raised"
              /\ result.kind = "SWAPIException"
              /\ session_calls = 3
              /\ ~ENABLED Attempt

C4_Witness ==
    /\ Len(history) = 3
    /\ AllOf(history, Is5xx)
    /\ pc = "raised"
    /\ session_calls = 3

\* C5: k server errors (k = 1 or 2) are each followed by a new attempt, and
\* when the next answer is a 2xx response with a valid JSON body the call
\* returns that body after exactly k+1 requests.
C5_SuccessAfterServerErrors ==
    /\ (Len(history) \in 1..2 /\ AllOf(history, Is5xx)) =>
           (pc = "loop" /\ session_calls = Len(history))
    /\ (Len(history) \in 2..3 /\ AllOf(Front(history), Is5xx) /\ IsValid2xx(Last(history))) =>
           /\ pc = "returned"
           /\ result = [kind |-> "data", value |-> Last(history).body]
           /\ session_calls = Len(history)

C5_Witness ==
    /\ Len(history) = 3
    /\ AllOf(Front(history), Is5xx)
    /\ IsValid2xx(Last(history))
    /\ pc = "returned"
    /\ session_calls = 3

\* C6: a 4xx response on any attempt ends the call at once: SWAPIException is
\* raised, "Resource not found" for 404 and "Client error" for any other 4xx,
\* with no sleep after that response and no further request.
C6_ClientErrorIsTerminal ==
    (history # <<>> /\ Is4xx(Last(history))) =>
        /\ pc = "raised"
        /\ result.kind = "SWAPIException"
        /\ result.value = IF Last(history).status = 404
                          THEN "Resource not found" ELSE "Client error"
        /\ Len(sleeps) = Len(history) - 1
        /\ session_calls = Len(history)
        /\ ~ENABLED Attempt

C6_Witness ==
    /\ Len(history) = 2
    /\ Is4xx(Last(history))
    /\ Last(history).status # 404
    /\ pc = "raised"

\* C7: a timeout or connection error is retried while fewer than 3 attempts
\* were made, the data of a later successful attempt is returned, and
\* SWAPIException is raised only when the third attempt fails as well.
C7_TransportErrorsAreRetried ==
    /\ (history # <<>> /\ IsTransportError(Last(history))) =>
           IF Len(history) < 3
           THEN pc = "loop" /\ attempt = Len(history) + 1
           ELSE pc = "raised" /\ result.kind = "SWAPIException"
    /\ (Len(history) >= 2 /\ AllOf(Front(history), IsTransportError)
            /\ IsValid2xx(Last(history))) =>
           /\ pc = "returned"
           /\ result = [kind |-> "data", value |-> Last(history).body]

C7_Witness ==
    /\ Len(history) = 3
    /\ AllOf(Front(history), IsTransportError)
    /\ IsValid2xx(Last(history))
    /\ pc = "returned"

C7_WitnessExhausted ==
    /\ Len(history) = 3
    /\ AllOf(history, IsTransportError)
    /\ pc = "raised"

\* C8: a 2xx response whose body is not valid JSON ends the call on that same
\* attempt with an "Invalid JSON response" SWAPIException, without a sleep and
\* without a further request, whatever class json() raises.
C8_InvalidJsonIsTerminal ==
    (history # <<>> /\ IsMalformed2xx(Last(history))) =>
        /\ pc = "raised"
        /\ result = [kind |-> "SWAPIException", value |-> "Invalid JSON response"]
        /\ Len(sleeps) = Len(history) - 1

\* C9: the sleeps of one call are 1, 2 in that order: one sleep of
\* RETRY_DELAY * n after failed attempt n < 3, none before the first attempt,
\* none after the last attempt of the call.
C9_LinearBackoff ==
    /\ Len(sleeps) <= 2
    /\ \A i \in 1..Len(sleeps) : sleeps[i] = i
    /\ pc = "idle" => sleeps = <<>>
    /\ pc = "loop" => Len(sleeps) = attempt - 1 /\ Len(history) = attempt - 1
    /\ Finished => Len(sleeps) = Len(history) - 1

C9_Witness ==
    /\ pc = "raised"
    /\ Len(history) = 3
    /\ sleeps = <<1, 2>>

(***************************************************************************)
(*                  Properties of fetch_all_and_paginate                   *)
(***************************************************************************)

\* value occurs in str when letter case is ignored.
ContainsIgnoringCase(value, str) ==
    \E k \in 0..(Len(str) - Len(value)) :
        \A j \in 1..Len(value) : LowerChar(str[k + j]) = LowerChar(value[j])

\* item passes every filter entry that carries a value.
PassesFilters(item, filters) ==
    \A n \in 1..Len(filters) :
        filters[n].value # <<>> =>
            /\ filters[n].field \in DOMAIN item
            /\ ContainsIgnoringCase(filters[n].value, PyToStr(item[filters[n].field]))

\* Positions of the unfiltered candidate set that survive the call's filters.
Survivors == {i \in 1..Len(candidates) : PassesFilters(candidates[i], params.filters)}

\* The filtered set: the survivors in candidate order.
RECURSIVE FilteredFrom(_)
FilteredFrom(i) ==
    IF i > Len(candidates) THEN <<>>
    ELSE (IF i \in Survivors THEN <<candidates[i]>> ELSE <<>>) \o FilteredFrom(i + 1)

\* max(1, ceil(n / size)).
PagesOf(n, size) ==
    IF n = 0 THEN 1
    ELSE CHOOSE k \in 1..n : k * size >= n /\ (k - 1) * size < n

\* C1: the markers of a returned PageResult describe the filtered dataset:
\* total is the number of candidates that pass the filters, next is page+1
\* exactly when page < max(1, ceil(total/page_size)), previous is page-1
\* exactly when page > 1, and each is None otherwise.
C1_MarkersDescribeFilteredSet ==
    apc = "done" =>
        LET n == Cardinality(Survivors)
        IN /\ page_result.total = n
           /\ page_result.next =
                 IF params.page < PagesOf(n, params.page_size)
                 THEN params.page + 1 ELSE NoPage
           /\ page_result.previous =
                 IF params.page > 1 THEN params.page - 1 ELSE NoPage

\* A middle page of a listing whose filter removed upstream items.
C1_Witness ==
    /\ apc = "done"
    /\ Cardinality(Survivors) < Len(upstream)
    /\ Cardinality(Survivors) < Len(candidates)
    /\ page_result.total = Cardinality(Survivors)
    /\ page_result.next = params.page + 1
    /\ page_result.previous = params.page - 1
    /\ params.page > 1

\* C2: the items of a returned PageResult are the elements of the filtered
\* set at positions [(p-1)*s, p*s), in filtered-set order; a page past the
\* last filtered page yields no items, and the call still returns.
C2_ItemsAreTheRequestedSlice ==
    apc = "done" =>
        LET F == FilteredFrom(1)
            lo == (params.page - 1) * params.page_size
            hi == Min(params.page * params.page_size, Len(F))
        IN /\ Len(page_result.items) = (IF hi > lo THEN hi - lo ELSE 0)
           /\ \A k \in 1..Len(page_result.items) : page_result.items[k] = F[lo + k]
           /\ params.page > PagesOf(Len(F), params.page_size) => page_result.items = <<>>

\* 25 matching entries, page 2 of size 10: entries 11 to 20.
C2_Witness ==
    /\ apc = "done"
    /\ params.page = 2
    /\ params.page_size = 10
    /\ page_result.total = 25
    /\ Len(page_result.items) = 10
    /\ page_result.items[1] = FilteredFrom(1)[11]
    /\ page_result.items[10] = FilteredFrom(1)[20]
    /\ page_result.next = 3
    /\ page_result.previous = 1

\* A page past the last filtered page.
C2_WitnessPastEnd ==
    /\ apc = "done"
    /\ page_result.total > 0
    /\ params.page > PagesOf(page_result.total, params.page_size)
    /\ page_result.items = <<>>

\* Pages whose fetch returned a response.
FetchedPages == {1} \cup {collected[i][1] : i \in {j \in 1..Len(collected) : collected[j][2]}}

\* The items of the fetched pages in ascending page number, from page p on.
RECURSIVE InPageOrder(_, _)
InPageOrder(p, last) ==
    IF p > last THEN <<>>
    ELSE (IF p \in FetchedPages THEN UpstreamPage(p) ELSE <<>>) \o InPageOrder(p + 1, last)

LastPage == IF request_log = <<>> THEN 0 ELSE request_log[Len(request_log)]

\* C3: whatever the completion order of pages 2..N, the unfiltered candidate
\* set lists the fetched pages in ascending upstream page number.
C3_CandidatesInPageOrder ==
    apc \in {"filtering", "done"} =>
        (IF apc = "done" THEN candidates ELSE all_items) = InPageOrder(1, LastPage)

\* C10: once a page other than page 1 has failed, the call still runs to its
\* return: the candidate set holds the items of exactly the fetched pages,
\* each once, and the markers are computed over them.
C10_FailedPageIsDropped ==
    (\E i \in 1..Len(collected) : ~collected[i][2]) =>
        /\ apc # "failed"
        /\ apc = "collecting" => InFlight(pending) # {}
        /\ LET got == IF apc = "done" THEN candidates ELSE all_items
               want == InPageOrder(1, LastPage)
           IN /\ Len(got) = Len(want)
              /\ {got[i] : i \in 1..Len(got)} = {want[i] : i \in 1..Len(want)}
        /\ apc = "done" =>
              /\ page_result.total = Cardinality(Survivors)
              /\ page_result.total <= Len(candidates)
              /\ page_result.next =
                    IF params.page < PagesOf(page_result.total, params.page_size)
                    THEN params.page + 1 ELSE NoPage
              /\ page_result.previous =
                    IF params.page > 1 THEN params.page - 1 ELSE NoPage

\* Page 2 of 3 failed, page 3 was kept, and the call returned.
C10_Witness ==
    /\ apc = "done"
    /\ \E i \in 1..Len(collected) : ~collected[i][2]
    /\ \E i \in 1..Len(collected) : collected[i][2]
    /\ Len(candidates) < Len(upstream)
    /\ Len(candidates) > Len(UpstreamPage(1))
    /\ page_result.total > 0

\* C11: when the fetch of upstream page 1 fails, the call fails with it: no
\* PageResult is returned, page 1 is the only page ever requested, nothing
\* is submitted or collected, and the call takes no further step.
C11_FirstPageFailureIsFatal ==
    first_fetch = "raised" =>
        /\ apc = "failed"
        /\ page_result = NoPageResult
        /\ request_log = <<1>>
        /\ pending = {}
        /\ collected = <<>>
        /\ ~ENABLED Next

C11_Witness ==
    /\ first_fetch = "raised"
    /\ apc = "failed"
    /\ Len(upstream) > upstream_page_len
    /\ request_log = <<1>>

(***************************************************************************)
(*                    SWAPIClient.extract_id_from_url                      *)
(***************************************************************************)

MaxUrlLen == 3

\* Characters of the explored URLs; "\n" is there because `$` also matches
\* just before a newline that ends the string.
UrlChars == {"/", "0", "1", "2", "a", "\n"}

IsDigit(c) == \E d \in 1..Len(DigitChars) : DigitChars[d] = c

DigitValue(c) == (CHOOSE d \in 1..Len(DigitChars) : DigitChars[d] = c) - 1

\* int(group) for a group of decimal digits.
RECURSIVE IntOfDigits(_)
IntOfDigits(chars) ==
    IF chars = <<>> THEN 0
    ELSE IntOfDigits(SubSeq(chars, 1, Len(chars) - 1)) * 10
            + DigitValue(chars[Len(chars)])

\* All strings over UrlChars of length at most n.
RECURSIVE StringsUpTo(_)
StringsUpTo(n) ==
    IF n = 0 THEN {<<>>}
    ELSE LET shorter == StringsUpTo(n - 1)
         IN shorter \cup {Append(str, c) : str \in shorter, c \in UrlChars}

\* The argument of extract_id_from_url: a string, or None.
PyNoneArg == [none |-> TRUE, str |-> <<>>]

PyStrArg(str) == [none |-> FALSE, str |-> str]

\* What may follow the digits for `/?$` to match.
PatternTails == {<<>>, <<"/">>, <<"\n">>, <<"/", "\n">>}

\* re.search(r'/(\d+)/?$', str): the digits captured by the leftmost match,
\* or no match.
ReSearchId(str) ==
    LET EndOfRun(i) ==
            {j \in (i + 1)..Len(str) :
                /\ \A k \in (i + 1)..j : IsDigit(str[k])
                /\ SubSeq(str, j + 1, Len(str)) \in PatternTails}
        starts == {i \in 1..Len(str) : str[i] = "/" /\ EndOfRun(i) # {}}
    IN IF starts = {} THEN [matched |-> FALSE, group |-> <<>>]
       ELSE LET i == CHOOSE a \in starts : \A b \in starts : a <= b
                j == CHOOSE e \in EndOfRun(i) : \A f \in EndOfRun(i) : f <= e
            IN [matched |-> TRUE, group |-> SubSeq(str, i + 1, j)]

Returned(type, value) == [kind |-> "returned", type |-> type, value |-> value]

Raised(exc) == [kind |-> "raised", type |-> exc, value |-> 0]

ReturnedNone == Returned("NoneType", 0)

\* extract_id_from_url(url); re.search raises TypeError when url is None.
ExtractIdFromUrl(url) ==
    IF url.none THEN Raised("TypeError")
    ELSE LET match == ReSearchId(url.str)
         IN IF match.matched
            THEN Returned("int", IntOfDigits(match.group))
            ELSE ReturnedNone

ExtractInit ==
    /\ ReqIdle /\ AggIdle /\ NoUpstream /\ ExpIdle /\ CacheIdle /\ SingletonIdle
    /\ fn_ret = NotCalled
    /\ \E url \in {PyNoneArg} \cup {PyStrArg(str) : str \in StringsUpTo(MaxUrlLen)} :
          fn_call = [kind |-> "extract_id_from_url", url |-> url]

ExtractCall ==
    /\ fn_call.kind = "extract_id_from_url"
    /\ fn_ret = NotCalled
    /\ fn_ret' = ExtractIdFromUrl(fn_call.url)
    /\ UNCHANGED fn_call
    /\ UNCHANGED nonFnVars

\* One extract_id_from_url call on any string of at most MaxUrlLen
\* characters, or on None.
SpecExtract == ExtractInit /\ [][ExtractCall]_vars

(***************************************************************************)
(*                    Properties of extract_id_from_url                    *)
(***************************************************************************)

ExtractDone == fn_call.kind = "extract_id_from_url" /\ fn_ret # NotCalled

\* str without the one slash that may end it.
WithoutFinalSlash(str) ==
    IF str # <<>> /\ str[Len(str)] = "/" THEN SubSeq(str, 1, Len(str) - 1) ELSE str

\* Where the trailing path segment of str starts, when it is a decimal
\* integer: the positions of a slash followed only by digits up to the end.
IntegerSegmentStarts(str) ==
    LET body == WithoutFinalSlash(str)
    IN {i \in 1..(Len(body) - 1) :
            body[i] = "/" /\ \A k \in (i + 1)..Len(body) : IsDigit(body[k])}

\* C16: extract_id_from_url raises for no input: a URL whose trailing path
\* segment is a decimal integer (with or without a final slash) gives that
\* integer; an empty string, None, or a non-numeric suffix gives None.
C16_ExtractIdIsTotal ==
    ExtractDone =>
        /\ fn_ret.kind = "returned"
        /\ LET url == fn_call.url
               starts == IntegerSegmentStarts(url.str)
           IN IF ~url.none /\ starts # {}
              THEN LET i == CHOOSE a \in starts : TRUE
                       body == WithoutFinalSlash(url.str)
                   IN fn_ret = Returned("int", IntOfDigits(SubSeq(body, i + 1, Len(body))))
              ELSE fn_ret = ReturnedNone

\* C17: the result of extract_id_from_url is None or a strictly positive
\* integer, never zero and never negative.
C17_ExtractIdIsPositive ==
    (ExtractDone /\ fn_ret.kind = "returned") =>
        \/ fn_ret = ReturnedNone
        \/ fn_ret.type = "int" /\ fn_ret.value > 0

(***************************************************************************)
(*      fetch_<relation>_details, fetch_homeworld_details and the          *)
(*      per-character loop of the characters endpoint                      *)
(***************************************************************************)

MaxUrls == 3

Resources == {"films", "people", "planets", "species", "vehicles", "starships"}

\* The list-valued relations the shaping function of each resource counts.
Relations(resource) ==
    CASE resource = "films" ->
            {"characters", "planets", "starships", "vehicles", "species"}
      [] resource = "people" -> {"films", "species", "vehicles", "starships"}
      [] resource = "planets" -> {"residents", "films"}
      [] resource = "species" -> {"people", "films"}
      [] resource = "vehicles" -> {"pilots", "films"}
      [] resource = "starships" -> {"pilots", "films"}

\* A list of n reference URLs, as an upstream entity carries them.
RelatedUrls(n) == [k \in 1..n |-> <<"/", DigitChars[k + 1], "/">>]

\* The entity the upstream holds under resource/id.
Entity(resource, id) ==
    [resource |-> resource,
     name     |-> id,
     url      |-> <<"/", DigitChars[id + 1], "/">>,
     related  |-> [r \in Relations(resource) |-> RelatedUrls(id)]]

\* A person as the upstream returns it, homeworld reference included.
Person(id, homeworld) ==
    [resource  |-> "people",
     name      |-> id,
     url       |-> <<"/", DigitChars[id + 1], "/">>,
     related   |-> [r \in Relations("people") |-> RelatedUrls(id)],
     homeworld |-> homeworld]

\* enrich_<resource>_data: the scalar fields and one count per relation.
EnrichData(data) ==
    [resource |-> data.resource,
     name     |-> data.name,
     url      |-> data.url,
     counts   |-> [r \in DOMAIN data.related |-> Len(data.related[r])]]

\* enrich_character_data keeps the homeworld reference as it came.
EnrichCharacterData(character) ==
    [resource  |-> character.resource,
     name      |-> character.name,
     url       |-> character.url,
     counts    |-> [r \in DOMAIN character.related |-> Len(character.related[r])],
     homeworld |-> character.homeworld]

Enrich(data) ==
    IF data.resource = "people" THEN EnrichCharacterData(data) ELSE EnrichData(data)

\* Python truthiness of a value that is a string or None.
Truthy(v) == ~v.none /\ v.str # <<>>

\* The references the explored lists are made of: two that resolve to an id,
\* one without a number, one with id 0, and None.
UrlChoices ==
    {PyStrArg(<<"/", "1", "/">>), PyStrArg(<<"/", "2">>), PyStrArg(<<"/", "a", "/">>),
     PyStrArg(<<"/", "0", "/">>), PyNoneArg}

\* What a person's homeworld field can hold.
HomeworldValues ==
    {PyNoneArg, PyStrArg(<<>>), PyStrArg(<<"/", "1", "/">>),
     PyStrArg(<<"/", "a", "/">>), PyStrArg(<<"/", "0", "/">>)}

RECURSIVE ListsUpTo(_, _)
ListsUpTo(elems, n) ==
    IF n = 0 THEN {<<>>}
    ELSE LET shorter == ListsUpTo(elems, n - 1)
         IN shorter \cup {Append(l, e) : l \in shorter, e \in elems}

\* The id a by-id lookup is made with, 0 when `if <id>:` skips the lookup
\* or extract_id_from_url raised inside the try.
LookupId(url) ==
    LET r == ExtractIdFromUrl(url)
    IN IF r.kind = "returned" /\ r.type = "int" THEN r.value ELSE 0

LookupFailurePolicy_propagate == "propagate"

\* `except Exception: continue` around each iteration of an expander.
LookupFailurePolicy == "continue"

HomeworldFailurePolicy_propagate == "propagate"

\* `except Exception: return None` in fetch_homeworld_details.
HomeworldFailurePolicy == "none"

EnrichHomeworldRequested_always(args) == TRUE

\* `if enrich_homeworld:` in fetch_characters_details.
EnrichHomeworldRequested(args) == args.enrich_homeworld

\* fetch_homeworld_details(homeworld_url, client), given how the planet
\* lookup ends if one is made: the planet id looked up (0: no lookup) and
\* whether the call returned details, returned None, or raised.
FetchHomeworldDetails(homeworld_url, planet_ok) ==
    LET planet_id == IF Truthy(homeworld_url) THEN LookupId(homeworld_url) ELSE 0
    IN [planet_id |-> planet_id,
        outcome   |-> IF planet_id = 0 THEN "none"
                      ELSE IF planet_ok THEN "details"
                      ELSE IF HomeworldFailurePolicy = "none" THEN "none"
                      ELSE "raised",
        details   |-> IF planet_id = 0 THEN NotCalled
                      ELSE EnrichData(Entity("planets", planet_id))]

LookupEntry(resource, id, index, nested, ok) ==
    [resource |-> resource, id |-> id, index |-> index, nested |-> nested, ok |-> ok]

\* The log after fetch_homeworld_details h ran for the item at index.
WithHomeworldLookup(log, h, index, planet_ok) ==
    IF h.planet_id = 0 THEN log
    ELSE Append(log, LookupEntry("planets", h.planet_id, index, TRUE, planet_ok))

Expanders == {[fn |-> r, urls |-> urls, chars |-> <<>>, enrich_homeworld |-> flag] :
                 r \in Resources, urls \in ListsUpTo(UrlChoices, MaxUrls),
                 flag \in BOOLEAN}

\* The characters of one page of the characters endpoint, with
\* include_homeworld set or not.
EndpointLoops ==
    {[fn |-> "get_characters",
      urls |-> <<>>,
      chars |-> [i \in 1..Len(hws) |-> Person(i, hws[i])],
      enrich_homeworld |-> flag] :
        hws \in ListsUpTo(HomeworldValues, MaxUrls), flag \in BOOLEAN}

ExpandInit ==
    /\ ReqIdle /\ AggIdle /\ NoUpstream /\ FnIdle /\ CacheIdle /\ SingletonIdle
    /\ epc = "running"
    /\ exp_args \in {a \in Expanders : a.enrich_homeworld => a.fn = "people"}
                        \cup EndpointLoops
    /\ exp_pos = 1
    /\ exp_out = <<>>
    /\ lookups = <<>>

\* One iteration of `for url in <relation>_urls` (utils.py), try block and
\* except clause included.
ExpanderStep ==
    /\ epc = "running"
    /\ exp_args.fn \in Resources
    /\ exp_pos <= Len(exp_args.urls)
    /\ LET resource == exp_args.fn
           id == LookupId(exp_args.urls[exp_pos])
       IN IF id = 0
          THEN /\ exp_pos' = exp_pos + 1
               /\ UNCHANGED <<epc, exp_out, lookups>>
          ELSE \E ok \in BOOLEAN, hw \in HomeworldValues, planet_ok \in BOOLEAN :
                 LET entry == LookupEntry(resource, id, exp_pos, FALSE, ok)
                     data == IF resource = "people" THEN Person(id, hw)
                             ELSE Entity(resource, id)
                     nest == /\ resource = "people"
                             /\ EnrichHomeworldRequested(exp_args)
                             /\ Truthy(hw)
                     h == FetchHomeworldDetails(hw, planet_ok)
                     enriched == IF nest /\ h.outcome = "details"
                                 THEN [Enrich(data) EXCEPT !.homeworld = h.details]
                                 ELSE Enrich(data)
                 IN IF ~ok \/ (nest /\ h.outcome = "raised")
                    THEN /\ lookups' = IF ok
                                       THEN WithHomeworldLookup(Append(lookups, entry),
                                                                h, exp_pos, planet_ok)
                                       ELSE Append(lookups, entry)
                         /\ IF LookupFailurePolicy = "continue"
                            THEN exp_pos' = exp_pos + 1 /\ UNCHANGED epc
                            ELSE epc' = "raised" /\ UNCHANGED exp_pos
                         /\ UNCHANGED exp_out
                    ELSE /\ lookups' = IF nest
                                       THEN WithHomeworldLookup(Append(lookups, entry),
                                                                h, exp_pos, planet_ok)
                                       ELSE Append(lookups, entry)
                         /\ exp_out' = Append(exp_out, enriched)
                         /\ exp_pos' = exp_pos + 1
                         /\ UNCHANGED epc
    /\ UNCHANGED exp_args
    /\ UNCHANGED nonExpVars

\* One iteration of `for char in characters` of the characters endpoint, as
\* far as the homeworld is concerned (characters/main.py).
EndpointStep ==
    /\ epc = "running"
    /\ exp_args.fn = "get_characters"
    /\ exp_pos <= Len(exp_args.chars)
    /\ \E planet_ok \in BOOLEAN :
          LET char == exp_args.chars[exp_pos]
              h == FetchHomeworldDetails(char.homeworld, planet_ok)
              enriched_char ==
                  IF exp_args.enrich_homeworld /\ h.outcome = "details"
                  THEN [EnrichCharacterData(char) EXCEPT !.homeworld = h.details]
                  ELSE EnrichCharacterData(char)
          IN IF exp_args.enrich_homeworld
             THEN /\ lookups' = WithHomeworldLookup(lookups, h, exp_pos, planet_ok)
                  /\ IF h.outcome = "raised"
                     THEN epc' = "raised" /\ UNCHANGED <<exp_out, exp_pos>>
                     ELSE /\ exp_out' = Append(exp_out, enriched_char)
                          /\ exp_pos' = exp_pos + 1
                          /\ UNCHANGED epc
             ELSE /\ exp_out' = Append(exp_out, enriched_char)
                  /\ exp_pos' = exp_pos + 1
                  /\ UNCHANGED <<epc, lookups>>
    /\ UNCHANGED exp_args
    /\ UNCHANGED nonExpVars

\* The loop is over: the list is returned.
ExpandReturn ==
    /\ epc = "running"
    /\ exp_pos > Len(exp_args.urls) /\ exp_pos > Len(exp_args.chars)
    /\ epc' = "returned"
    /\ UNCHANGED <<exp_args, exp_pos, exp_out, lookups>>
    /\ UNCHANGED nonExpVars

ExpandNext == ExpanderStep \/ EndpointStep \/ ExpandReturn

\* One expander call, or one run of the endpoint's loop, on any list of at
\* most MaxUrls elements.
SpecExpand == ExpandInit /\ [][ExpandNext]_vars

(***************************************************************************)
(*              Properties of the relationship expanders                   *)
(***************************************************************************)

\* The by-id lookups of the listed references themselves that succeeded,
\* in the order they were made.
ResolvedLookups == SelectSeq(lookups, LAMBDA e : ~e.nested /\ e.ok)

FailedLookups == SelectSeq(lookups, LAMBDA e : ~e.nested /\ ~e.ok)

NestedLookups == SelectSeq(lookups, LAMBDA e : e.nested)

\* The scalar fields and relation counts of entity resource/id.
IsShaped(entity, resource, id) ==
    /\ entity.resource = resource
    /\ entity.name = Entity(resource, id).name
    /\ entity.url = Entity(resource, id).url
    /\ entity.counts = [r \in Relations(resource) |-> Len(Entity(resource, id).related[r])]

\* C12: a fetch_<relation>_details call never raises, and returns the
\* shaped entities of exactly the references whose lookup succeeded, in
\* input order; a reference that failed is omitted from the output.
C12_ExpanderIsBestEffort ==
    exp_args.fn \in Resources =>
        /\ epc # "raised"
        /\ Len(exp_out) = Len(ResolvedLookups)
        /\ \A j \in 1..Len(exp_out) :
              /\ IsShaped(exp_out[j], exp_args.fn, ResolvedLookups[j].id)
              /\ ResolvedLookups[j].id = LookupId(exp_args.urls[ResolvedLookups[j].index])
              /\ \A k \in 1..(j - 1) : ResolvedLookups[k].index < ResolvedLookups[j].index
        /\ epc = "returned" =>
              \A i \in 1..Len(exp_args.urls) :
                 LookupId(exp_args.urls[i]) # 0 =>
                    \E n \in 1..Len(lookups) : ~lookups[n].nested /\ lookups[n].index = i

\* Three references, the middle one failed, the other two returned.
C12_Witness ==
    /\ epc = "returned"
    /\ exp_args.fn \in Resources
    /\ Len(exp_args.urls) = 3
    /\ Len(FailedLookups) = 1 /\ FailedLookups[1].index = 2
    /\ Len(exp_out) = 2

HomeworldEnriching ==
    /\ exp_args.fn \in {"people", "get_characters"}
    /\ exp_args.enrich_homeworld

\* The position in the input list of the person that became exp_out[j].
PersonIndex(j) ==
    IF exp_args.fn = "people" THEN ResolvedLookups[j].index ELSE j

HomeworldLookupsOf(index) == SelectSeq(NestedLookups, LAMBDA e : e.index = index)

\* C13: with homeworld enrichment on, in fetch_characters_details and in
\* the characters endpoint alike, no error is raised and every person stays
\* in the output: with the nested shaped planet as homeworld when the planet
\* lookup succeeded, else with the homeworld None or the raw reference.
C13_HomeworldIsBestEffort ==
    HomeworldEnriching =>
        /\ epc # "raised"
        /\ Len(exp_out) = IF exp_args.fn = "people" THEN Len(ResolvedLookups)
                          ELSE exp_pos - 1
        /\ \A j \in 1..Len(exp_out) :
              LET hl == HomeworldLookupsOf(PersonIndex(j))
              IN IF hl # <<>> /\ hl[1].ok
                 THEN IsShaped(exp_out[j].homeworld, "planets", hl[1].id)
                 ELSE exp_out[j].homeworld \in HomeworldValues

\* An expander call that returned one person with the planet nested and one
\* whose planet lookup failed.
C13_Witness ==
    /\ epc = "returned"
    /\ exp_args.fn = "people" /\ exp_args.enrich_homeworld
    /\ Len(exp_out) = 2
    /\ Len(NestedLookups) = 2
    /\ NestedLookups[1].ok /\ ~NestedLookups[2].ok
    /\ exp_out[2].homeworld = PyStrArg(<<"/", "1", "/">>)

\* The endpoint's loop kept a character whose planet lookup failed, with the
\* raw reference as homeworld.
C13_WitnessEndpoint ==
    /\ epc = "returned"
    /\ exp_args.fn = "get_characters" /\ exp_args.enrich_homeworld
    /\ Len(exp_out) = 2
    /\ Len(NestedLookups) = 1 /\ ~NestedLookups[1].ok /\ NestedLookups[1].index = 1
    /\ exp_out[1].homeworld = PyStrArg(<<"/", "1", "/">>)
    /\ exp_out[2].homeworld = PyNoneArg

\* C14: fetch_characters_details goes one level deep and no further: at most
\* one planet lookup per person that resolved, none for anything else, an
\* embedded homeworld that is a shaped planet carrying counts and no
\* references, and no planet lookup at all when enrich_homeworld is false.
C14_DepthIsOne ==
    exp_args.fn = "people" =>
        /\ \A n \in 1..Len(lookups) :
              IF lookups[n].nested
              THEN /\ lookups[n].resource = "planets"
                   /\ n > 1
                   /\ lookups[n - 1] =
                         LookupEntry("people", lookups[n - 1].id, lookups[n].index,
                                     FALSE, TRUE)
              ELSE lookups[n].resource = "people"
        /\ Len(NestedLookups) <= Len(ResolvedLookups)
        /\ ~exp_args.enrich_homeworld => NestedLookups = <<>>
        /\ \A j \in 1..Len(exp_out) :
              LET hw == exp_out[j].homeworld
              IN hw \notin HomeworldValues =>
                    /\ DOMAIN hw = {"resource", "name", "url", "counts"}
                    /\ hw.resource = "planets"
                    /\ \A r \in DOMAIN hw.counts : hw.counts[r] \in Nat

\* Two persons resolved with enrich_homeworld set, each with its one
\* planet lookup.
C14_Witness ==
    /\ epc = "returned"
    /\ exp_args.fn = "people" /\ exp_args.enrich_homeworld
    /\ Len(ResolvedLookups) = 2
    /\ Len(NestedLookups) = 2
    /\ Len(lookups) = 4
    /\ exp_out[1].homeworld \notin HomeworldValues

(***************************************************************************)
(*                 The lookup methods of SWAPIClient                       *)
(***************************************************************************)

MaxCalls == 2

LRU_MAXSIZE == 128

ByIdMethods == {"get_film_by_id", "get_person_by_id", "get_planet_by_id",
                "get_starship_by_id", "get_species_by_id", "get_vehicle_by_id"}

ListMethods == {"get_films", "get_people", "get_planets", "get_starships"}

\* The identifiers, and the search terms (0: no search term), of the calls.
LookupKeys == {0, 1}

\* What the upstream may hold under one endpoint at the time of a request.
DataVersions == {"v1", "v2"}

CacheGet(entries, key) ==
    LET hit == SelectSeq(entries, LAMBDA e : e[1] = key)
    IN IF hit = <<>> THEN [hit |-> FALSE, value |-> ""]
       ELSE [hit |-> TRUE, value |-> hit[1][2]]

\* A hit moves the entry to the most recently used end.
CacheTouch(entries, key) ==
    SelectSeq(entries, LAMBDA e : e[1] # key)
        \o SelectSeq(entries, LAMBDA e : e[1] = key)

\* A miss that returned stores the value, evicting the least recently used
\* entry of a full cache.
CachePut(entries, key, value) ==
    LET kept == IF Len(entries) >= LRU_MAXSIZE THEN Tail(entries) ELSE entries
    IN Append(kept, <<key, value>>)

StoresResult_always(ok) == TRUE

\* The memoizing wrapper stores what the method returns; a call that raises
\* leaves the wrapper before anything is stored.
StoresResult(ok) == ok

CallEntry(method, key, ok, value, requests) ==
    [method |-> method, key |-> key, ok |-> ok, value |-> value, requests |-> requests]

\* One call of a lookup method: a decorated method answers from its cache
\* when the key is there; anything else goes through _make_request, which
\* returns the upstream's data or raises.
Lookup ==
    /\ Len(call_log) < MaxCalls
    /\ \E method \in ByIdMethods \cup ListMethods, key \in LookupKeys :
          LET cached == IF method \in CachedMethods
                        THEN CacheGet(lru_cache[method], key)
                        ELSE [hit |-> FALSE, value |-> ""]
          IN IF cached.hit
             THEN /\ lru_cache' = [lru_cache EXCEPT
                                      ![method] = CacheTouch(lru_cache[method], key)]
                  /\ call_log' = Append(call_log,
                                        CallEntry(method, key, TRUE, cached.value, 0))
                  /\ UNCHANGED http_log
             ELSE \E ok \in BOOLEAN, data \in DataVersions :
                     LET value == IF ok THEN data ELSE "SWAPIException"
                     IN /\ http_log' = Append(http_log, <<method, key>>)
                        /\ call_log' = Append(call_log,
                                              CallEntry(method, key, ok, value, 1))
                        /\ lru_cache' =
                              IF method \in CachedMethods /\ StoresResult(ok)
                              THEN [lru_cache EXCEPT
                                       ![method] = CachePut(lru_cache[method], key, value)]
                              ELSE lru_cache
    /\ UNCHANGED nonCacheVars

CacheInit == ReqIdle /\ AggIdle /\ NoUpstream /\ FnIdle /\ ExpIdle /\ CacheIdle /\ SingletonIdle

\* At most MaxCalls lookups on one client.
SpecCache == CacheInit /\ [][Lookup]_vars

(***************************************************************************)
(*                  Properties of the lookup methods                       *)
(***************************************************************************)

\* C15: by-id lookups and list lookups by search term are memoized: after
\* one successful lookup, every later lookup of the same method with the same
\* identifier or search term returns an equal result and issues no HTTP
\* request.
C15_LookupsAreMemoized ==
    \A m, n \in 1..Len(call_log) :
       (/\ m < n
        /\ call_log[m].ok
        /\ call_log[m].method = call_log[n].method
        /\ call_log[m].key = call_log[n].key)
          => /\ call_log[n].ok
             /\ call_log[n].value = call_log[m].value
             /\ call_log[n].requests = 0

\* The same property for the two methods that carry @lru_cache.
C15_DecoratedLookupsAreMemoized ==
    \A m, n \in 1..Len(call_log) :
       (/\ m < n
        /\ call_log[m].ok
        /\ call_log[m].method \in CachedMethods
        /\ call_log[m].method = call_log[n].method
        /\ call_log[m].key = call_log[n].key)
          => /\ call_log[n].ok
             /\ call_log[n].value = call_log[m].value
             /\ call_log[n].requests = 0

(***************************************************************************)
(*                          filter_by_field calls                          *)
(***************************************************************************)

MaxData == 2

\* What an item holds under the key "f": a str, an empty str, an int, zero,
\* None; NotCalled stands for an item without the key.
FieldValues ==
    {PyStrValue(<<"A", "b">>), PyStrValue(<<"b", "0">>), PyStrValue(<<>>),
     PyIntValue(0), PyIntValue(10), PyNoneValue, NotCalled}

FilterItem(i, v) == IF v = NotCalled THEN [id |-> i] ELSE [id |-> i, f |-> v]

\* The `value` arguments; <<>> is the empty string.
FilterValues == {<<>>, <<"a">>, <<"B">>, <<"0">>, <<"1", "0">>}

FilterInit ==
    /\ ReqIdle /\ AggIdle /\ NoUpstream /\ ExpIdle /\ CacheIdle /\ SingletonIdle
    /\ fn_ret = NotCalled
    /\ \E vs \in ListsUpTo(FieldValues, MaxData), field \in {"f", "g"},
          value \in FilterValues :
          fn_call = [kind  |-> "filter_by_field",
                     data  |-> [i \in 1..Len(vs) |-> FilterItem(i, vs[i])],
                     field |-> field,
                     value |-> value]

FilterCall ==
    /\ fn_call.kind = "filter_by_field"
    /\ fn_ret = NotCalled
    /\ fn_ret' = Returned("list", FilterByField(fn_call.data, fn_call.field, fn_call.value))
    /\ UNCHANGED fn_call
    /\ UNCHANGED nonFnVars

\* One filter_by_field call on any list of at most MaxData items.
SpecFilter == FilterInit /\ [][FilterCall]_vars

(***************************************************************************)
(*                      Properties of filter_by_field                      *)
(***************************************************************************)

\* item has the field (a key holding None counts as missing) and the string
\* form of its value contains value, letter case ignored.
FieldContains(item, field, value) ==
    /\ field \in DOMAIN item
    /\ item[field] # PyNoneValue
    /\ ContainsIgnoringCase(value, PyToStr(item[field]))

\* C19: filter_by_field returns data unchanged when value is empty;
\* otherwise it returns, in their original order, exactly the items that
\* have the field and whose stringified field value contains value when
\* both are compared case-insensitively.
C19_FilterByFieldContract ==
    (fn_call.kind = "filter_by_field" /\ fn_ret # NotCalled) =>
        fn_ret.value =
            IF fn_call.value = <<>> THEN fn_call.data
            ELSE SelectSeq(fn_call.data,
                           LAMBDA item : FieldContains(item, fn_call.field, fn_call.value))

(***************************************************************************)
(*                                sort_data                                *)
(***************************************************************************)

MaxSortLen == 3

\* The keys get_sort_key returns: a number (held in tenths), float('inf'),
\* or a lower-cased string.
KeyNum(tenths) == [k |-> "num", tenths |-> tenths]

KeyInf == [k |-> "inf"]

KeyStr(str) == [k |-> "str", str |-> str]

Unsigned(chars) ==
    IF chars # <<>> /\ chars[1] \in {"-", "+"} THEN Tail(chars) ELSE chars

Sign(chars) == IF chars # <<>> /\ chars[1] = "-" THEN -1 ELSE 1

\* int(value) does not raise ValueError.
IsIntLiteral(chars) ==
    /\ Unsigned(chars) # <<>>
    /\ \A i \in 1..Len(Unsigned(chars)) : IsDigit(Unsigned(chars)[i])

\* Position of the first "." of chars, 0 when there is none.
DotAt(chars) ==
    IF \E i \in 1..Len(chars) : chars[i] = "."
    THEN CHOOSE i \in 1..Len(chars) : chars[i] = "." /\ \A j \in 1..(i - 1) : chars[j] # "."
    ELSE 0

\* float(value) does not raise ValueError, for a value with a "." in it.
IsFloatLiteral(chars) ==
    LET u == Unsigned(chars)
        d == DotAt(u)
    IN /\ d # 0
       /\ Len(u) > 1
       /\ \A i \in 1..Len(u) : i # d => IsDigit(u[i])

\* float(value) in tenths; exact for at most one digit after the ".".
FloatTenths(chars) ==
    LET u == Unsigned(chars)
        d == DotAt(u)
        whole == IntOfDigits(SubSeq(u, 1, d - 1))
        frac == IF d < Len(u) THEN DigitValue(u[d + 1]) ELSE 0
    IN Sign(chars) * (whole * 10 + frac)

\* get_sort_key(item)
GetSortKey(item, sort_by) ==
    LET value == ItemGet(item, sort_by)
    IN CASE value.type = "NoneType" -> KeyInf
         [] value.type = "str" ->
               IF DotAt(value.str) = 0
               THEN IF IsIntLiteral(value.str)
                    THEN KeyNum(Sign(value.str) * IntOfDigits(Unsigned(value.str)) * 10)
                    ELSE KeyStr(Lower(value.str))
               ELSE IF IsFloatLiteral(value.str)
                    THEN KeyNum(FloatTenths(value.str))
                    ELSE KeyStr(Lower(value.str))
         [] value.type = "int" -> KeyNum(value.int * 10)

\* Characters in code point order.
CodePoints == <<"+", "-", ".">> \o DigitChars \o UpperCase \o LowerCase

CodePoint(c) == CHOOSE n \in 1..Len(CodePoints) : CodePoints[n] = c

\* a < b for two str.
StrLess(a, b) ==
    \E n \in 1..(Len(b)) :
        /\ \A j \in 1..(n - 1) : j <= Len(a) /\ a[j] = b[j]
        /\ \/ n = Len(a) + 1
           \/ n <= Len(a) /\ CodePoint(a[n]) < CodePoint(b[n])

\* `<` between a str and a number raises TypeError.
Comparable(a, b) == (a.k = "str") <=> (b.k = "str")

\* a < b for two comparable keys.
KeyLess(a, b) ==
    CASE a.k = "str" -> StrLess(a.str, b.str)
      [] a.k = "inf" -> FALSE
      [] a.k = "num" -> b.k = "inf" \/ (b.k = "num" /\ a.tenths < b.tenths)

\* x goes before y in the output because of its key alone: sorted() is
\* stable, and with reverse=True items of equal keys keep their order too.
GoesBefore(x, y, sort_by, reverse) ==
    IF reverse THEN KeyLess(GetSortKey(y, sort_by), GetSortKey(x, sort_by))
    ELSE KeyLess(GetSortKey(x, sort_by), GetSortKey(y, sort_by))

\* An unstable insertion: x goes before the items whose key equals its own.
InsertSorted_beforeEquals(list, x, sort_by, reverse) ==
    LET later == {p \in 1..Len(list) : ~GoesBefore(list[p], x, sort_by, reverse)}
        at == IF later = {} THEN Len(list) + 1
              ELSE CHOOSE p \in later : \A q \in later : p <= q
    IN SubSeq(list, 1, at - 1) \o <<x>> \o SubSeq(list, at, Len(list))

\* x inserted into the sorted list before the first item it goes before.
InsertSorted(list, x, sort_by, reverse) ==
    LET later == {p \in 1..Len(list) : GoesBefore(x, list[p], sort_by, reverse)}
        at == IF later = {} THEN Len(list) + 1
              ELSE CHOOSE p \in later : \A q \in later : p <= q
    IN SubSeq(list, 1, at - 1) \o <<x>> \o SubSeq(list, at, Len(list))

RECURSIVE Sorted(_, _, _)
Sorted(data, sort_by, reverse) ==
    IF data = <<>> THEN <<>>
    ELSE InsertSorted(Sorted(SubSeq(data, 1, Len(data) - 1), sort_by, reverse),
                      data[Len(data)], sort_by, reverse)

\* reverse = (order == "desc")
Reverse(order) == order = "desc"

\* sort_data(data, sort_by, order)
SortData(data, sort_by, order) ==
    IF \E i, j \in 1..Len(data) :
          ~Comparable(GetSortKey(data[i], sort_by), GetSortKey(data[j], sort_by))
    THEN Raised("TypeError")
    ELSE Returned("list", Sorted(data, sort_by, Reverse(order)))

\* What an item holds under the sort key "h"; NotCalled stands for an item
\* without the key.
SortValues ==
    {PyStrValue(<<"2">>), PyStrValue(<<"1", "0">>), PyStrValue(<<"1", ".", "5">>),
     PyStrValue(<<"b">>), PyStrValue(<<"A">>), PyIntValue(2), PyNoneValue, NotCalled}

SortItem(i, v) == IF v = NotCalled THEN [id |-> i] ELSE [id |-> i, h |-> v]

SortInit ==
    /\ ReqIdle /\ AggIdle /\ NoUpstream /\ ExpIdle /\ CacheIdle /\ SingletonIdle
    /\ fn_ret = NotCalled
    /\ \E vs \in ListsUpTo(SortValues, MaxSortLen), order \in {"asc", "desc"} :
          fn_call = [kind    |-> "sort_data",
                     data    |-> [i \in 1..Len(vs) |-> SortItem(i, vs[i])],
                     sort_by |-> "h",
                     order   |-> order]

SortCall ==
    /\ fn_call.kind = "sort_data"
    /\ fn_ret = NotCalled
    /\ fn_ret' = SortData(fn_call.data, fn_call.sort_by, fn_call.order)
    /\ UNCHANGED fn_call
    /\ UNCHANGED nonFnVars

\* One sort_data call on any list of at most MaxSortLen items.
SpecSort == SortInit /\ [][SortCall]_vars

(***************************************************************************)
(*                         Properties of sort_data                         *)
(***************************************************************************)

SortReturned ==
    fn_call.kind = "sort_data" /\ fn_ret # NotCalled /\ fn_ret.kind = "returned"

\* The sort field of item is missing or None.
SortFieldMissing(item) ==
    fn_call.sort_by \notin DOMAIN item \/ item[fn_call.sort_by] = PyNoneValue

\* C20: in the result of sort_data, every item whose sort field is missing
\* or None comes after every item whose sort field is present, for order
\* "asc" and for order "desc" alike.
C20_MissingFieldSortsLast ==
    SortReturned =>
        \A i, j \in 1..Len(fn_ret.value) :
            (SortFieldMissing(fn_ret.value[i]) /\ ~SortFieldMissing(fn_ret.value[j]))
                => j < i

\* The same property for ascending order only.
C20_MissingFieldSortsLastAscending ==
    (SortReturned /\ fn_call.order = "asc") =>
        \A i, j \in 1..Len(fn_ret.value) :
            (SortFieldMissing(fn_ret.value[i]) /\ ~SortFieldMissing(fn_ret.value[j]))
                => j < i

(***************************************************************************)
(*        The planets and starships listing endpoints                      *)
(***************************************************************************)

ListingEndpoints == {"get_planets", "get_starships"}

\* The two fields each endpoint filters on locally.
LocalFilterFields(endpoint) ==
    IF endpoint = "get_planets" THEN <<"climate", "terrain">>
    ELSE <<"starship_class", "manufacturer">>

\* An upstream planet or starship with the two fields of its endpoint.
ListingItem(endpoint, i, a, b) ==
    IF endpoint = "get_planets"
    THEN [id |-> i, climate |-> PyStrValue(a), terrain |-> PyStrValue(b)]
    ELSE [id |-> i, starship_class |-> PyStrValue(a), manufacturer |-> PyStrValue(b)]

FirstFieldValues == {<<"a", "r">>, <<"t">>}

SecondFieldValues == {<<"d">>, <<"g">>}

\* The number of upstream pages; page 1 exists for an empty collection too.
UpstreamPages ==
    IF upstream = <<>> THEN 1
    ELSE (Len(upstream) + upstream_page_len - 1) \div upstream_page_len

\* The body the upstream answers client.get_<kind>(search, page) with.
ListingResponse(p) ==
    [count    |-> Len(upstream),
     next     |-> IF p < UpstreamPages THEN p + 1 ELSE NoPage,
     previous |-> IF p > 1 THEN p - 1 ELSE NoPage,
     results  |-> UpstreamPage(p)]

ListingInit ==
    /\ ReqIdle /\ AggIdle /\ ExpIdle /\ CacheIdle /\ SingletonIdle
    /\ fn_ret = NotCalled
    /\ upstream_page_len \in 1..MaxUpstreamPageLen
    /\ \E endpoint \in ListingEndpoints, n \in 0..MaxItems, page \in 1..MaxPage,
          first \in {<<>>, <<"A">>}, second \in {<<>>, <<"d">>} :
          /\ \E a \in [1..n -> FirstFieldValues], b \in [1..n -> SecondFieldValues] :
                upstream = IF n = 0 THEN <<>>
                           ELSE [i \in 1..n |-> ListingItem(endpoint, i, a[i], b[i])]
          /\ fn_call = [kind |-> endpoint, page |-> page,
                        first |-> first, second |-> second]

\* get_planets / get_starships: one upstream page, the local filters applied
\* to it, and the response assembled from it.  A page the upstream does not
\* have is a 404, which _make_request raises.
GetListing ==
    /\ fn_call.kind \in ListingEndpoints
    /\ fn_ret = NotCalled
    /\ fn_ret' =
          IF fn_call.page > UpstreamPages THEN Raised("SWAPIException")
          ELSE LET data == ListingResponse(fn_call.page)
                   fields == LocalFilterFields(fn_call.kind)
                   by_first == IF fn_call.first # <<>>
                               THEN FilterByField(data.results, fields[1], fn_call.first)
                               ELSE data.results
                   by_second == IF fn_call.second # <<>>
                                THEN FilterByField(by_first, fields[2], fn_call.second)
                                ELSE by_first
               IN Returned("response",
                           [count    |-> Len(by_second),
                            total    |-> data.count,
                            next     |-> data.next,
                            previous |-> data.previous,
                            data     |-> by_second])
    /\ UNCHANGED fn_call
    /\ UNCHANGED nonFnVars

\* One request to a listing endpoint, over any upstream collection of at
\* most MaxItems items.
SpecListing == ListingInit /\ [][GetListing]_vars

(***************************************************************************)
(*                  Properties of the listing endpoints                    *)
(***************************************************************************)

ListingAnswered ==
    fn_call.kind \in ListingEndpoints /\ fn_ret # NotCalled /\ fn_ret.kind = "returned"

LocallyFiltered == fn_call.first # <<>> \/ fn_call.second # <<>>

\* The items of the whole collection that match the request's local filters.
MatchingUpstream ==
    LET fields == LocalFilterFields(fn_call.kind)
        Matches(item) ==
            /\ fn_call.first # <<>> =>
                  ContainsIgnoringCase(fn_call.first, PyToStr(item[fields[1]]))
            /\ fn_call.second # <<>> =>
                  ContainsIgnoringCase(fn_call.second, PyToStr(item[fields[2]]))
    IN SelectSeq(upstream, Matches)

\* C18: when a listing endpoint applies a local filter, total is the number
\* of items of the whole collection that match it, and next/previous follow
\* from that total and the page size, not from the upstream's count and
\* pagination tokens.
C18_ListingMarkersArePostFilter ==
    (ListingAnswered /\ LocallyFiltered) =>
        LET response == fn_ret.value
            matching == Len(MatchingUpstream)
        IN /\ response.total = matching
           /\ response.next =
                 IF fn_call.page * upstream_page_len < matching
                 THEN fn_call.page + 1 ELSE NoPage
           /\ response.previous = IF fn_call.page > 1 THEN fn_call.page - 1 ELSE NoPage

\* Some items of the call's input lack the sort field (or hold None).
SomeFieldMissing ==
    \E i \in 1..Len(fn_call.data) : SortFieldMissing(fn_call.data[i])

\* b holds exactly the items of a: the items carry distinct ids.
IsPermutation(a, b) ==
    /\ Len(a) = Len(b)
    /\ \A i \in 1..Len(a) : \E j \in 1..Len(b) : b[j] = a[i]
    /\ \A i, j \in 1..Len(b) : i # j => b[i] # b[j]

\* C21: sort_data never fails when some items lack the sort field: whatever
\* the present values are (numeric strings, other strings, numbers), it
\* returns a permutation of the input.
C21_SortToleratesMissingField ==
    (fn_call.kind = "sort_data" /\ fn_ret # NotCalled /\ SomeFieldMissing) =>
        /\ fn_ret.kind = "returned"
        /\ IsPermutation(fn_call.data, fn_ret.value)

\* Position of the item with identity id in list.
PositionOf(list, id) == CHOOSE p \in 1..Len(list) : list[p].id = id

\* C22: sort_data is stable in both directions: two items whose sort keys
\* are equal appear in the result in the relative order of the input.
C22_SortIsStable ==
    SortReturned =>
        \A i, j \in 1..Len(fn_call.data) :
            (/\ i < j
             /\ GetSortKey(fn_call.data[i], fn_call.sort_by)
                   = GetSortKey(fn_call.data[j], fn_call.sort_by))
              => PositionOf(fn_ret.value, fn_call.data[i].id)
                    < PositionOf(fn_ret.value, fn_call.data[j].id)

\* A descending sort of three items that moved the last one to the front and
\* kept the two of equal key ("2" and 2) in input order.
C22_Witness ==
    /\ SortReturned
    /\ fn_call.order = "desc"
    /\ Len(fn_call.data) = 3
    /\ ItemGet(fn_call.data[1], "h") = PyStrValue(<<"2">>)
    /\ ItemGet(fn_call.data[2], "h") = PyIntValue(2)
    /\ ItemGet(fn_call.data[3], "h") = PyStrValue(<<"1", "0">>)
    /\ fn_ret.value = <<fn_call.data[3], fn_call.data[1], fn_call.data[2]>>

(***************************************************************************)
(*                              truncate_text                              *)
(***************************************************************************)

MaxTextLen == 5

TextChars == {"a", "."}

RECURSIVE TextsUpTo(_)
TextsUpTo(n) ==
    IF n = 0 THEN {<<>>}
    ELSE LET shorter == TextsUpTo(n - 1)
         IN shorter \cup {Append(str, c) : str \in shorter, c \in TextChars}

\* seq[:k]; a negative k counts from the end.
PyPrefix(seq, k) ==
    IF k >= 0 THEN SubSeq(seq, 1, Min(k, Len(seq)))
    ELSE SubSeq(seq, 1, IF Len(seq) + k > 0 THEN Len(seq) + k ELSE 0)

Ellipsis == <<".", ".", ".">>

\* The cut keeps max_length characters and appends the ellipsis to them.
TruncateText_keepMaxLength(text, max_length) ==
    IF ~Truthy(text) THEN <<>>
    ELSE IF Len(text.str) <= max_length THEN text.str
    ELSE PyPrefix(text.str, max_length) \o Ellipsis

\* truncate_text(text, max_length)
TruncateText(text, max_length) ==
    IF ~Truthy(text) THEN <<>>
    ELSE IF Len(text.str) <= max_length THEN text.str
    ELSE PyPrefix(text.str, max_length - 3) \o Ellipsis

TruncateInit ==
    /\ ReqIdle /\ AggIdle /\ NoUpstream /\ ExpIdle /\ CacheIdle /\ SingletonIdle
    /\ fn_ret = NotCalled
    /\ \E text \in {PyNoneArg} \cup {PyStrArg(str) : str \in TextsUpTo(MaxTextLen)},
          max_length \in 0..(MaxTextLen + 1) :
          fn_call = [kind |-> "truncate_text", text |-> text, max_length |-> max_length]

TruncateCall ==
    /\ fn_call.kind = "truncate_text"
    /\ fn_ret = NotCalled
    /\ fn_ret' = Returned("str", TruncateText(fn_call.text, fn_call.max_length))
    /\ UNCHANGED fn_call
    /\ UNCHANGED nonFnVars

\* One truncate_text call on None or any text of at most MaxTextLen
\* characters, with any max_length up to MaxTextLen + 1.
SpecTruncate == TruncateInit /\ [][TruncateCall]_vars

(***************************************************************************)
(*                       Properties of truncate_text                       *)
(***************************************************************************)

TruncateDone == fn_call.kind = "truncate_text" /\ fn_ret # NotCalled

EndsWith(str, suffix) ==
    /\ Len(str) >= Len(suffix)
    /\ SubSeq(str, Len(str) - Len(suffix) + 1, Len(str)) = suffix

\* C23: truncate_text(text, n) returns text unchanged when len(text) <= n,
\* the empty string for empty or None text, and when len(text) > n a string
\* of length exactly n: the first n-3 characters of text followed by "...".
C23_TruncateContract ==
    TruncateDone =>
        LET text == fn_call.text
            n == fn_call.max_length
            out == fn_ret.value
        IN IF text.none \/ text.str = <<>> THEN out = <<>>
           ELSE IF Len(text.str) <= n THEN out = text.str
           ELSE /\ Len(out) = n
                /\ out = SubSeq(text.str, 1, n - 3) \o Ellipsis

\* The same contract for max_length >= 3.
C23_TruncateContractFromThree ==
    (TruncateDone /\ fn_call.max_length >= 3) =>
        LET text == fn_call.text
            n == fn_call.max_length
            out == fn_ret.value
        IN IF text.none \/ text.str = <<>> THEN out = <<>>
           ELSE IF Len(text.str) <= n THEN out = text.str
           ELSE /\ Len(out) = n
                /\ out = SubSeq(text.str, 1, n - 3) \o Ellipsis

HandlerExceptions ==
    {"ValidationError", "SWAPIException", "ValueError", "KeyError", "TypeError",
     "AttributeError", "RuntimeError", "Exception"}

\* The classes an exception of class cls is an instance of; pydantic's
\* ValidationError is a ValueError.
ExceptionBases(cls) ==
    CASE cls = "ValidationError" -> {"ValidationError", "ValueError", "Exception"}
      [] cls = "Exception" -> {"Exception"}
      [] OTHER -> {cls, "Exception"}

\* The messages of the raised exceptions: those _make_request raises, and
\* one of any other origin.
ErrorMessages ==
    {"Timeout", "Request failed", "Resource not found", "Invalid JSON response",
     "unexpected"}

ErrorClauses_genericFirst == <<"Exception", "ValidationError", "SWAPIException">>

\* The except clauses of handle_errors' wrapper, in source order.
ErrorClauses == <<"ValidationError", "SWAPIException", "Exception">>

\* The clause that handles an exception of class cls, "none" when it
\* propagates.
ErrorHandler(cls) ==
    LET hits == {i \in 1..Len(ErrorClauses) : ErrorClauses[i] \in ExceptionBases(cls)}
    IN IF hits = {} THEN "none"
       ELSE ErrorClauses[CHOOSE i \in hits : \A j \in hits : i <= j]

JsonResponse(body, status) ==
    [body |-> body, status |-> status, content_type |-> "application/json"]

\* The response each clause builds.
ErrorResponse(clause, message) ==
    CASE clause = "ValidationError" ->
            JsonResponse([success |-> FALSE, error |-> "Parametros invalidos",
                          detail |-> message], 400)
      [] clause = "SWAPIException" ->
            JsonResponse([success |-> FALSE, error |-> "Erro ao consultar SWAPI",
                          detail |-> message], 503)
      [] clause = "Exception" ->
            JsonResponse([success |-> FALSE, error |-> "Erro interno do servidor",
                          detail |-> "Ocorreu um erro ao processar sua requisicao"], 500)

\* How the wrapped handler ends: it returns its response or raises.
HandlerBehaviours ==
    [kind : {"returns"}, cls : {""}, message : {"ok"}]
    \cup [kind : {"raises"}, cls : HandlerExceptions, message : ErrorMessages]

Endpoints == {"get_films", "get_characters", "get_planets", "get_starships"}

\* wrapper(request) of handle_errors around a handler that ends as given.
HandleErrors(behaviour) ==
    IF behaviour.kind = "returns"
    THEN Returned("response", JsonResponse([success |-> TRUE, error |-> "",
                                            detail |-> behaviour.message], 200))
    ELSE LET clause == ErrorHandler(behaviour.cls)
         IN IF clause = "none" THEN Raised(behaviour.cls)
            ELSE Returned("response", ErrorResponse(clause, behaviour.message))

ErrorsInit ==
    /\ ReqIdle /\ AggIdle /\ NoUpstream /\ ExpIdle /\ CacheIdle /\ SingletonIdle
    /\ fn_ret = NotCalled
    /\ \E endpoint \in Endpoints, behaviour \in HandlerBehaviours :
          fn_call = [kind |-> "handle_errors", func |-> endpoint, behaviour |-> behaviour]

HandleErrorsCall ==
    /\ fn_call.kind = "handle_errors"
    /\ fn_ret = NotCalled
    /\ fn_ret' = HandleErrors(fn_call.behaviour)
    /\ UNCHANGED fn_call
    /\ UNCHANGED nonFnVars

\* One request through handle_errors, for every way the handler can end.
SpecErrors == ErrorsInit /\ [][HandleErrorsCall]_vars

(***************************************************************************)
(*                       Properties of handle_errors                       *)
(***************************************************************************)

HandlerRaised(cls_set) ==
    /\ fn_call.kind = "handle_errors"
    /\ fn_ret # NotCalled
    /\ fn_call.behaviour.kind = "raises"
    /\ fn_call.behaviour.cls \in cls_set

MaxGets == 2

\* `if _swapi_client_instance is None:` evaluated by thread t at the start
\* of a call.
GetCheck(t) ==
    /\ tpc[t] = "idle"
    /\ Len(treturned[t]) < MaxGets
    /\ tpc' = [tpc EXCEPT ![t] = IF instance = NoInstance THEN "create" ELSE "return"]
    /\ UNCHANGED <<instance, created, tlocal, treturned>>
    /\ UNCHANGED nonSingletonVars

\* SWAPIClient() constructs a new object.
GetConstruct(t) ==
    /\ tpc[t] = "create"
    /\ created' = created + 1
    /\ tlocal' = [tlocal EXCEPT ![t] = created + 1]
    /\ tpc' = [tpc EXCEPT ![t] = "assign"]
    /\ UNCHANGED <<instance, treturned>>
    /\ UNCHANGED nonSingletonVars

\* `_swapi_client_instance = ...` stores the object in the global.
GetAssign(t) ==
    /\ tpc[t] = "assign"
    /\ instance' = tlocal[t]
    /\ tlocal' = [tlocal EXCEPT ![t] = NoInstance]
    /\ tpc' = [tpc EXCEPT ![t] = "return"]
    /\ UNCHANGED <<created, treturned>>
    /\ UNCHANGED nonSingletonVars

\* `return _swapi_client_instance` reads the global.
GetReturn(t) ==
    /\ tpc[t] = "return"
    /\ treturned' = [treturned EXCEPT ![t] = Append(treturned[t], instance)]
    /\ tpc' = [tpc EXCEPT ![t] = "idle"]
    /\ UNCHANGED <<instance, created, tlocal>>
    /\ UNCHANGED nonSingletonVars

SingletonNext ==
    \E t \in Threads : GetCheck(t) \/ GetConstruct(t) \/ GetAssign(t) \/ GetReturn(t)

SingletonInit ==
    ReqIdle /\ AggIdle /\ NoUpstream /\ FnIdle /\ ExpIdle /\ CacheIdle /\ SingletonIdle

\* MaxThreads threads of one process, each calling get_swapi_client at most
\* MaxGets times, interleaved in every way.
SpecSingleton == SingletonInit /\ [][SingletonNext]_vars

(***************************************************************************)
(*                      Properties of get_swapi_client                     *)
(***************************************************************************)

\* C26: every call to get_swapi_client returns the same instance and at
\* most one instance is ever created, for every interleaving of the callers.
C26_OneInstance ==
    /\ created <= 1
    /\ \A t, u \in Threads :
          \A i \in 1..Len(treturned[t]), j \in 1..Len(treturned[u]) :
             treturned[t][i] = treturned[u][j]

(***************************************************************************)
(*        Further properties of fetch_all_and_paginate                     *)
(***************************************************************************)

\* ceil(count / len(page 1 results)), the page length taken as
\* DEFAULT_ITEMS_PER_PAGE when page 1 is empty.
TotalUpstreamPages ==
    LET per_page == IF UpstreamPage(1) = <<>> THEN DEFAULT_ITEMS_PER_PAGE
                    ELSE Len(UpstreamPage(1))
    IN IF upstream = <<>> THEN 0
       ELSE CHOOSE k \in 1..Len(upstream) :
               k * per_page >= Len(upstream) /\ (k - 1) * per_page < Len(upstream)

Occurrences(seq, x) == Cardinality({i \in 1..Len(seq) : seq[i] = x})

\* C27: page 1 and each page 2..totalUpstreamPages are requested exactly
\* once, and whatever order the workers complete in, the unfiltered
\* candidate set holds every item of every successfully fetched page exactly
\* once and nothing else.
C27_EachPageOnceEachItemOnce ==
    apc \in {"filtering", "done"} =>
        /\ \A p \in {1} \cup (2..TotalUpstreamPages) : Occurrences(request_log, p) = 1
        /\ Len(request_log) = Cardinality({1} \cup (2..TotalUpstreamPages))
        /\ LET got == IF apc = "done" THEN candidates ELSE all_items
           IN /\ \A p \in FetchedPages :
                    \A i \in 1..Len(UpstreamPage(p)) :
                       Occurrences(got, UpstreamPage(p)[i]) = 1
              /\ \A i \in 1..Len(got) :
                    \E p \in FetchedPages :
                       \E j \in 1..Len(UpstreamPage(p)) : got[i] = UpstreamPage(p)[j]

\* Three upstream pages, page 3 completed before page 2, and every item of
\* the collection is a candidate.
C27_Witness ==
    /\ apc = "done"
    /\ request_log = <<1, 2, 3>>
    /\ collected = << <<3, TRUE>>, <<2, TRUE>> >>
    /\ Len(candidates) = Len(upstream)
    /\ Len(upstream) >= 3

(***************************************************************************)
(* Further properties of _make_request.                                    *)
(***************************************************************************)

UnexpectedLoopExit == result.value = "Unexpected error in request loop"

IsTimeout(o) == o.kind = "error" /\ "Timeout" \in Bases(o.exc)

\* C28: whatever the upstream answers (5xx responses, timeouts and other
\* transport errors in any mix), one call of _make_request issues at most
\* MAX_RETRIES = 3 requests and sleeps at most twice, every kind of failure
\* advances the same attempt counter, the call ends with parsed data or with
\* SWAPIException, and the raise placed after the loop is never executed.
C28_BoundedRetryLoop ==
    /\ session_calls <= MAX_RETRIES
    /\ Len(sleeps) <= MAX_RETRIES - 1
    /\ Len(history) = session_calls
    /\ pc = "loop" =>
          /\ attempt = session_calls + 1
          /\ attempt <= MAX_RETRIES
          /\ Len(sleeps) = session_calls
    /\ Finished =>
          /\ result.kind \in {"data", "SWAPIException"}
          /\ Len(sleeps) = session_calls - 1
    /\ ~UnexpectedLoopExit

C28_Witness ==
    /\ pc = "raised"
    /\ result.kind = "SWAPIException"
    /\ session_calls = MAX_RETRIES
    /\ Len(sleeps) = MAX_RETRIES - 1
    /\ Is5xx(history[1])
    /\ IsTimeout(history[2])
    /\ IsTransportError(history[3]) /\ ~IsTimeout(history[3])

(***************************************************************************)
(* Further properties of the memoized lookups.                             *)
(***************************************************************************)

CallsOf(log, method, key) ==
    {i \in 1..Len(log) : log[i].method = method /\ log[i].key = key}

PreviousCallFailed(log, method, key) ==
    LET earlier == CallsOf(log, method, key)
    IN /\ earlier # {}
       /\ ~log[CHOOSE i \in earlier : \A j \in earlier : j <= i].ok

LookupFinishes == Len(call_log') = Len(call_log) + 1

\* C29: a call of a memoized method (get_films, get_film_by_id) that raises
\* SWAPIException came from an HTTP request, never from the cache, and it
\* leaves the cache as it was, with no entry for its arguments; the next call
\* with the same arguments issues a new HTTP request and, when that request
\* succeeds, returns and stores that request's data.
C29_FailuresAreNotCached ==
    [][LookupFinishes =>
         LET call == Last(call_log')
         IN call.method \in CachedMethods =>
              /\ ~call.ok =>
                    /\ call.requests = 1
                    /\ lru_cache' = lru_cache
                    /\ ~CacheGet(lru_cache'[call.method], call.key).hit
              /\ PreviousCallFailed(call_log, call.method, call.key) =>
                    /\ call.requests = 1
                    /\ http_log' = Append(http_log, <<call.method, call.key>>)
                    /\ call.ok =>
                          /\ call.value \in DataVersions
                          /\ CacheGet(lru_cache'[call.method], call.key)
                                = [hit |-> TRUE, value |-> call.value]]_vars

C29_Witness ==
    /\ Len(call_log) = 2
    /\ call_log[1] = CallEntry("get_film_by_id", 1, FALSE, "SWAPIException", 1)
    /\ call_log[2] = CallEntry("get_film_by_id", 1, TRUE, "v2", 1)
    /\ Len(http_log) = 2
    /\ lru_cache["get_film_by_id"] = << <<1, "v2">> >>

(***************************************************************************)
(* The value returned by fetch_func for page 1.                            *)
(***************************************************************************)

\* C30: fetch_all_and_paginate leaves the first-page response as fetch_func
\* returned it: during and after the call its 'results' list holds page 1's
\* items only, the items of later pages are not appended to it.
C30_FirstPageResponseUnchanged ==
    (apc # "idle" /\ first_fetch = "ok") => first_page.results = Response(1).results

====
